---- MODULE Spec2Model ----
(***************************************************************************)
(* Model of hls_estimator.py: the ffprobe adapter get_video_metadata, the  *)
(* estimator calculate_segment_duration and the environment change made by *)
(* install_ffmpeg.                                                         *)
(*                                                                         *)
(* Python str values are sequences of one-character strings, so that int() *)
(* and float() are real parsers.  Python float values are IEEE-754 binary64*)
(* numbers: a 53-bit mantissa kept in two limbs (hi * 2^26 + lo) and a     *)
(* binary exponent, with round-to-nearest-even division, gradual underflow *)
(* and overflow to infinity.  Python int values are integers (all values of*)
(* the model stay below 2^31).                                             *)
(***************************************************************************)
EXTENDS Integers, Sequences, FiniteSets, TLC

VARIABLES fileExists, tools, run, target, pc, metadata, result, exc, history

vars == <<fileExists, tools, run, target, pc, metadata, result, exc, history>>

(***************************************************************************)
(* Bounds                                                                  *)
(***************************************************************************)
MaxStreams == 2
MaxCalls == 3

(***************************************************************************)
(* Python values                                                           *)
(***************************************************************************)
\* None and a message: a message is a non-empty sequence of its parts (the
\* literal text and the interpolated values of an f-string); every message
\* the code builds starts with a non-empty literal.
None == << >>

\* A JSON member of the ffprobe report: missing key, null, or a string.
Absent == [t |-> "absent", v |-> << >>]
Null == [t |-> "null", v |-> << >>]
Str(s) == [t |-> "str", v |-> s]

NA == <<"N", "/", "A">>

Digits == {"0", "1", "2", "3", "4", "5", "6", "7", "8", "9"}

DigitVal(c) ==
  CASE c = "0" -> 0 [] c = "1" -> 1 [] c = "2" -> 2 [] c = "3" -> 3
    [] c = "4" -> 4 [] c = "5" -> 5 [] c = "6" -> 6 [] c = "7" -> 7
    [] c = "8" -> 8 [] c = "9" -> 9

AllDigits(s) == \A i \in 1..Len(s) : s[i] \in Digits

RECURSIVE DigitsVal(_)
DigitsVal(s) ==
  IF s = << >> THEN 0
  ELSE 10 * DigitsVal(SubSeq(s, 1, Len(s) - 1)) + DigitVal(s[Len(s)])

RECURSIVE Pow10(_)
Pow10(k) == IF k = 0 THEN 1 ELSE 10 * Pow10(k - 1)

\* int(str) on the strings ffprobe's members take here: an optional minus
\* sign, then one or more decimal digits; the others (empty, "N/A", a
\* fraction) raise ValueError.
ParseInt(s) ==
  LET neg == s # << >> /\ s[1] = "-"
      body == IF neg THEN Tail(s) ELSE s
  IN IF body # << >> /\ AllDigits(body)
     THEN [ok |-> TRUE, v |-> IF neg THEN 0 - DigitsVal(body) ELSE DigitsVal(body)]
     ELSE [ok |-> FALSE, v |-> 0]

(***************************************************************************)
(* IEEE-754 binary64                                                       *)
(***************************************************************************)
B26 == 67108864
MantBits == 53
\* The exponent of the lowest bit of the smallest double (2^-1074) and of the
\* highest bit of the largest (2^1023).
MinExp == -1074
MaxExp == 1023

\* value = (-1)^neg * (hi * 2^26 + lo) * 2^e; the mantissa is 0 or lies in
\* [2^52, 2^53), also for a subnormal number (whose e is then below MinExp).
\* k = "inf" is an infinity, k = "nan" a NaN, k = "zde" marks a division by
\* zero (Python raises ZeroDivisionError).
FZero == [k |-> "fin", neg |-> FALSE, hi |-> 0, lo |-> 0, e |-> 0]
FNaN == [k |-> "nan", neg |-> FALSE, hi |-> 0, lo |-> 0, e |-> 0]
FZeroDiv == [k |-> "zde", neg |-> FALSE, hi |-> 0, lo |-> 0, e |-> 0]
FInf(neg) == [k |-> "inf", neg |-> neg, hi |-> 0, lo |-> 0, e |-> 0]
\* 2^-1074, the smallest positive double.
FMinSubnormal == [k |-> "fin", neg |-> FALSE, hi |-> B26, lo |-> 0, e |-> MinExp - (MantBits - 1)]

MantZero(x) == x.hi = 0 /\ x.lo = 0

LimbDbl(x) == [hi |-> 2 * x.hi + (2 * x.lo) \div B26, lo |-> (2 * x.lo) % B26]
LimbGeq(x, y) == x.hi > y.hi \/ (x.hi = y.hi /\ x.lo >= y.lo)
LimbSub(x, y) ==
  IF x.lo >= y.lo THEN [hi |-> x.hi - y.hi, lo |-> x.lo - y.lo]
  ELSE [hi |-> x.hi - y.hi - 1, lo |-> x.lo + B26 - y.lo]
LimbInc(x) ==
  IF x.lo + 1 = B26 THEN [hi |-> x.hi + 1, lo |-> 0] ELSE [hi |-> x.hi, lo |-> x.lo + 1]

RECURSIVE Pow2(_)
Pow2(k) == IF k = 0 THEN 1 ELSE 2 * Pow2(k - 1)

RECURSIVE BitLen(_)
BitLen(n) == IF n = 0 THEN 0 ELSE 1 + BitLen(n \div 2)

\* m * 2^n for a mantissa m whose product stays below 2^53.
RECURSIVE LimbShl(_, _)
LimbShl(m, n) ==
  IF n >= 26 THEN LimbShl([hi |-> m.hi * B26 + m.lo, lo |-> 0], n - 26)
  ELSE [hi |-> m.hi * Pow2(n) + m.lo \div Pow2(26 - n),
        lo |-> (m.lo % Pow2(26 - n)) * Pow2(n)]

\* m \div 2^n, and whether a 1 bit was dropped.
LimbShr(m, n) ==
  IF n >= 53 THEN [m |-> [hi |-> 0, lo |-> 0], sticky |-> m.hi # 0 \/ m.lo # 0]
  ELSE IF n >= 26
  THEN [m |-> [hi |-> 0, lo |-> m.hi \div Pow2(n - 26)],
        sticky |-> m.lo # 0 \/ m.hi % Pow2(n - 26) # 0]
  ELSE [m |-> [hi |-> m.hi \div Pow2(n),
               lo |-> m.lo \div Pow2(n) + (m.hi % Pow2(n)) * Pow2(26 - n)],
        sticky |-> m.lo % Pow2(n) # 0]

\* float(n) for an int n with |n| < 2^31 (exact).
IntToFloat(n) ==
  IF n = 0 THEN FZero
  ELSE LET a == IF n < 0 THEN 0 - n ELSE n
           sh == MantBits - BitLen(a)
           m == LimbShl([hi |-> 0, lo |-> a], sh)
       IN [k |-> "fin", neg |-> n < 0, hi |-> m.hi, lo |-> m.lo, e |-> 0 - sh]

\* One quotient bit of restoring division by d (st.rem < d).
DivStep(st, d) ==
  LET r2 == LimbDbl(st.rem)
      q2 == LimbDbl(st.q)
  IN IF LimbGeq(r2, d) THEN [q |-> LimbInc(q2), rem |-> LimbSub(r2, d)]
     ELSE [q |-> q2, rem |-> r2]

\* n quotient bits, the first half before the second; once the remainder is 0
\* the remaining quotient bits are 0.
RECURSIVE DivLoop(_, _, _)
DivLoop(st, d, n) ==
  IF n = 0 THEN st
  ELSE IF n = 1 THEN DivStep(st, d)
  ELSE LET mid == DivLoop(st, d, n \div 2)
       IN IF mid.rem.hi = 0 /\ mid.rem.lo = 0
          THEN [q |-> LimbShl(mid.q, n - n \div 2), rem |-> mid.rem]
          ELSE DivLoop(mid, d, n - n \div 2)

\* The double for the mantissa m (any value below 2^53, not 0) and exponent e.
Normalized(neg, m, e) ==
  LET len == IF m.hi > 0 THEN 26 + BitLen(m.hi) ELSE BitLen(m.lo)
      n == LimbShl(m, MantBits - len)
  IN [k |-> "fin", neg |-> neg, hi |-> n.hi, lo |-> n.lo, e |-> e - (MantBits - len)]

\* The rounding of Subnormal, for s the quotient bits shifted down to one bit
\* below 2^MinExp (s.m) with the bits dropped (s.sticky).
SubnormalRound(neg, s, remNonZero) ==
  LET floor == [hi |-> s.m.hi \div 2, lo |-> s.m.lo \div 2 + (s.m.hi % 2) * (B26 \div 2)]
      up == s.m.lo % 2 = 1 /\ (s.sticky \/ remNonZero \/ floor.lo % 2 = 1)
  IN IF up THEN Normalized(neg, LimbInc(floor), MinExp)
     ELSE IF MantZero(floor) THEN FZero
     ELSE Normalized(neg, floor, MinExp)

\* A quotient below the normal range: the 53 quotient bits q (with the
\* remainder of the division) at exponent e0 < MinExp are rounded, once, to a
\* multiple of 2^MinExp.
Subnormal(neg, q, remNonZero, e0) ==
  SubnormalRound(neg, LimbShr(q, MinExp - e0 - 1), remNonZero)

\* The 53 quotient bits d.q rounded to nearest, ties to even, by the
\* remainder d.rem of the division by mb.
RoundedQuotient(d, mb) ==
  LET twice == LimbDbl(d.rem)
  IN IF (IF twice = mb THEN d.q.lo % 2 = 1 ELSE LimbGeq(twice, mb))
     THEN LimbInc(d.q) ELSE d.q

\* The double for the rounded quotient q1 at exponent e0 >= MinExp: a carry
\* out of the mantissa moves the exponent, an exponent above MaxExp is an
\* infinity.
Finite(neg, q1, e0) ==
  IF q1.hi >= 2 * B26
  THEN (IF e0 + 1 + (MantBits - 1) > MaxExp THEN FInf(neg)
        ELSE [k |-> "fin", neg |-> neg, hi |-> B26, lo |-> 0, e |-> e0 + 1])
  ELSE (IF e0 + (MantBits - 1) > MaxExp THEN FInf(neg)
        ELSE [k |-> "fin", neg |-> neg, hi |-> q1.hi, lo |-> q1.lo, e |-> e0])

\* The double for the quotient bits and remainder d of a division by mb.
Quotient(neg, d, mb, e0) ==
  IF e0 < MinExp THEN Subnormal(neg, d.q, ~MantZero(d.rem), e0)
  ELSE Finite(neg, RoundedQuotient(d, mb), e0)

\* a / b, correctly rounded (round to nearest, ties to even).
FDiv(a, b) ==
  IF a.k = "zde" \/ b.k = "zde" THEN FZeroDiv
  ELSE IF a.k = "nan" \/ b.k = "nan" THEN FNaN
  ELSE IF b.k = "fin" /\ MantZero(b) THEN FZeroDiv
  ELSE IF a.k = "inf" THEN (IF b.k = "inf" THEN FNaN ELSE FInf(a.neg # b.neg))
  ELSE IF b.k = "inf" \/ MantZero(a) THEN FZero
  ELSE
    LET ma == [hi |-> a.hi, lo |-> a.lo]
        mb == [hi |-> b.hi, lo |-> b.lo]
    IN IF LimbGeq(ma, mb)
       THEN Quotient(a.neg # b.neg,
                     DivLoop([q |-> [hi |-> 0, lo |-> 1], rem |-> LimbSub(ma, mb)], mb, MantBits - 1),
                     mb, a.e - b.e - (MantBits - 1))
       ELSE Quotient(a.neg # b.neg,
                     DivLoop([q |-> [hi |-> 0, lo |-> 0], rem |-> ma], mb, MantBits),
                     mb, a.e - b.e - MantBits)

\* x <= 0 and x > 0 (both False for a NaN).
FLeq0(x) == (x.k = "fin" /\ (MantZero(x) \/ x.neg)) \/ (x.k = "inf" /\ x.neg)
FGt0(x) == (x.k = "fin" /\ ~MantZero(x) /\ ~x.neg) \/ (x.k = "inf" /\ ~x.neg)

\* math.ceil(x) for a finite x, as an int.
FCeil(x) ==
  IF MantZero(x) THEN 0
  ELSE IF x.e >= 0 THEN (IF x.neg THEN -1 ELSE 1) * (x.hi * B26 + x.lo) * Pow2(x.e)
  ELSE LET s == LimbShr([hi |-> x.hi, lo |-> x.lo], 0 - x.e)
           fl == s.m.hi * B26 + s.m.lo
       IN IF x.neg THEN 0 - fl
          ELSE IF s.sticky THEN fl + 1 ELSE fl

\* float(str) on the strings ffprobe's members take here: an optional minus
\* sign, then digits with an optional fraction, "nan" or "inf" in any letter
\* case, or the numeral 5e-324, which float() rounds to the smallest
\* positive double; the others ("N/A", empty) raise ValueError.
Lower(c) ==
  CASE c = "N" -> "n" [] c = "A" -> "a" [] c = "I" -> "i" [] c = "F" -> "f" [] OTHER -> c

\* The value of a numeral: its magnitude with its sign (a zero has none here).
Signed(mag, neg) == [mag EXCEPT !.neg = neg /\ ~MantZero(mag)]

ParseFloat(s) ==
  LET neg == s # << >> /\ s[1] = "-"
      body == IF neg THEN Tail(s) ELSE s
      dots == {i \in 1..Len(body) : body[i] = "."}
      ip == IF dots = {} THEN body ELSE SubSeq(body, 1, (CHOOSE i \in dots : TRUE) - 1)
      fp == IF dots = {} THEN << >>
            ELSE SubSeq(body, (CHOOSE i \in dots : TRUE) + 1, Len(body))
  IN IF [i \in 1..Len(body) |-> Lower(body[i])] = <<"n", "a", "n">>
     THEN [ok |-> TRUE, v |-> FNaN]
     ELSE IF [i \in 1..Len(body) |-> Lower(body[i])] = <<"i", "n", "f">>
     THEN [ok |-> TRUE, v |-> FInf(neg)]
     ELSE IF body = <<"5", "e", "-", "3", "2", "4">>
     THEN [ok |-> TRUE, v |-> [FMinSubnormal EXCEPT !.neg = neg]]
     ELSE IF Cardinality(dots) <= 1 /\ AllDigits(ip) /\ AllDigits(fp) /\ ip \o fp # << >>
     THEN [ok |-> TRUE,
           v |-> Signed(FDiv(IntToFloat(DigitsVal(ip \o fp)), IntToFloat(Pow10(Len(fp)))), neg)]
     ELSE [ok |-> FALSE, v |-> FZero]

(***************************************************************************)
(* The inputs: the file system, the installed tools, what ffprobe does     *)
(***************************************************************************)
video_file_path == "test_video.mp4"

C(s) == Str(s)

DurationValues ==
  { Absent, Null, C(NA), C(<<"n", "a", "n">>), C(<<"i", "n", "f">>),
    C(<<"5", "e", "-", "3", "2", "4">>), C(<<"0">>), C(<<"-", "1">>),
    C(<<"2", ".", "5">>), C(<<"1", "0", "0">>), C(<<"3", "6", "0", "0">>) }

StreamBitRateValues ==
  { Absent, Null, C(NA), C(<<"1", ".", "5">>),
    C(<<"1", "2", "8", "0", "0", "0">>),
    C(<<"2", "0", "0", "0", "0", "0", "0">>),
    C(<<"5", "2", "8", "0", "0", "0", "0">>) }

FormatBitRateValues ==
  { Absent, Null, C(<< >>), C(NA), C(<<"0">>), C(<<"-", "5">>),
    C(<<"5", "0", "0", "0", "0", "0", "0">>) }

\* The stream lists of a report: up to MaxStreams streams, each a JSON object
\* reduced to its bit_rate member.
StreamLists ==
  UNION { { [i \in 1..n |-> [bit_rate |-> f[i]]] : f \in [1..n -> StreamBitRateValues] }
          : n \in 0..MaxStreams }

\* A report is ffprobe's JSON document: has_format / has_streams say whether
\* the 'format' and 'streams' keys exist.  The container bit rate only
\* matters when no stream bit rate was collected, so the reports with
\* streams carry two of its values.
Reports ==
  { [has_format |-> TRUE, duration |-> d, bit_rate |-> b, has_streams |-> TRUE, streams |-> sl] :
      d \in DurationValues,
      b \in {Absent, C(<<"5", "0", "0", "0", "0", "0", "0">>)},
      sl \in StreamLists \ {<< >>} }
  \cup
  { [has_format |-> TRUE, duration |-> d, bit_rate |-> b, has_streams |-> hs, streams |-> << >>] :
      d \in DurationValues, b \in FormatBitRateValues, hs \in BOOLEAN }
  \cup
  { [has_format |-> FALSE, duration |-> Absent, bit_rate |-> Absent,
     has_streams |-> TRUE, streams |-> << >>] }

NoReport ==
  [has_format |-> FALSE, duration |-> Absent, bit_rate |-> Absent,
   has_streams |-> FALSE, streams |-> << >>]

\* stderr of a failed ffprobe run, as the fragments the code searches for.
Stderrs ==
  { <<"test_video.mp4: ", "No such file or directory">>,
    <<"test_video.mp4: ", "Invalid data found when processing input">>,
    <<"test_video.mp4: ", "Invalid data found when processing input", "No such file or directory">>,
    <<"test_video.mp4: ", "Permission denied">> }

\* What running ffprobe on an existing file does: exits non-zero, prints
\* something that is not JSON, or prints a report.
Runs ==
  { [kind |-> "exit_nonzero", stderr |-> e, report |-> NoReport] : e \in Stderrs }
  \cup { [kind |-> "bad_json", stderr |-> << >>, report |-> NoReport] }
  \cup { [kind |-> "report", stderr |-> << >>, report |-> r] : r \in Reports }

DefaultRun == [kind |-> "bad_json", stderr |-> << >>, report |-> NoReport]

ToolStates == [ffmpeg : BOOLEAN, ffprobe : BOOLEAN]

\* What the installation does: "ok" installs the package, "failed" is an
\* apt-get that exits non-zero, "no_apt_get" a missing apt-get (or sudo), and
\* "broken" installs the package but the ffmpeg it brings exits non-zero with
\* text on stderr.
AptOutcomes == {"ok", "failed", "no_apt_get", "broken"}

Targets == {-1, 0, 1, 2, 22, 44}

(***************************************************************************)
(* install_ffmpeg                                                          *)
(***************************************************************************)
\* Returns True when ffmpeg runs or apt-get installed it (the package brings
\* ffprobe as well); a failing or missing apt-get leaves the tools as they
\* are.  When the final "ffmpeg -version" (run with text=True) exits non-zero
\* with text on stderr, the handler calls decode() on a str: AttributeError.
install_ffmpeg(t, apt) ==
  IF t.ffmpeg THEN [ret |-> TRUE, tools |-> t, raised |-> ""]
  ELSE IF apt = "ok"
  THEN [ret |-> TRUE, tools |-> [ffmpeg |-> TRUE, ffprobe |-> TRUE], raised |-> ""]
  ELSE IF apt = "broken"
  THEN [ret |-> FALSE, tools |-> [ffmpeg |-> FALSE, ffprobe |-> TRUE],
        raised |-> "AttributeError"]
  ELSE [ret |-> FALSE, tools |-> t, raised |-> ""]

(***************************************************************************)
(* get_video_metadata                                                      *)
(***************************************************************************)
Metadata(d, b, err) == [total_duration_sec |-> d, stream_bitrates_bps |-> b, error |-> err]

\* ErrorMetadata that keeps an entry in the bitrate list.
ErrorMetadata_Partial(err) == Metadata(FZero, <<0>>, err)

\* The value of every error return.
ErrorMetadata(err) == Metadata(FZero, << >>, err)

NoMetadata == Metadata(FZero, << >>, <<"<no value>">>)

Returns(v) == [raised |-> "", value |-> v, install |-> FALSE]
Raises(e) == [raised |-> e, value |-> NoMetadata, install |-> FALSE]

Contains(text, fragment) == \E i \in 1..Len(text) : text[i] = fragment

\* One iteration of the stream loop: the int appended for a stream, or the
\* exception int() raises that the loop does not catch.
StreamBitrate(stream) ==
  LET got == IF stream.bit_rate.t = "absent" THEN C(<<"0">>) ELSE stream.bit_rate
      bit_rate == IF got = C(NA) THEN C(<<"0">>) ELSE got
  IN IF bit_rate.t = "null" THEN [raised |-> "TypeError", v |-> 0]
     ELSE IF ParseInt(bit_rate.v).ok THEN [raised |-> "", v |-> ParseInt(bit_rate.v).v]
     ELSE [raised |-> "", v |-> 0]

\* FormatFallback without the test of the duration.
FormatFallback_AnyDuration(bitrates, duration, report) ==
  IF bitrates = << >>
  THEN LET format_bit_rate == report.bit_rate
       IN IF format_bit_rate.t = "str" /\ format_bit_rate.v # << >>
          THEN IF ParseInt(format_bit_rate.v).ok
               THEN <<ParseInt(format_bit_rate.v).v>>
               ELSE bitrates
          ELSE bitrates
  ELSE bitrates

\* The container-level fallback.
FormatFallback(bitrates, duration, report) ==
  IF bitrates = << >> /\ FGt0(duration)
  THEN LET format_bit_rate == report.bit_rate
       IN IF format_bit_rate.t = "str" /\ format_bit_rate.v # << >>
          THEN IF ParseInt(format_bit_rate.v).ok
               THEN <<ParseInt(format_bit_rate.v).v>>
               ELSE bitrates
          ELSE bitrates
  ELSE bitrates

\* The stream loop and the fallback, for the duration float() returned.
ProbeStreams(report, total_duration_sec) ==
  LET streams == IF report.has_streams THEN report.streams ELSE << >>
      per_stream == [i \in 1..Len(streams) |-> StreamBitrate(streams[i])]
  IN IF \E i \in 1..Len(streams) : per_stream[i].raised # ""
     THEN Raises("TypeError")
     ELSE Returns(Metadata(total_duration_sec,
                           FormatFallback([i \in 1..Len(streams) |-> per_stream[i].v],
                                          total_duration_sec, report),
                           None))

\* The conversion of the duration member, for what float() does with it.
ProbeDuration(report, parsed) ==
  IF ~parsed.ok THEN Raises("ValueError") ELSE ProbeStreams(report, parsed.v)

\* The try block, for a report that json.loads returned.
ProbeReport(report) ==
  IF ~(report.has_format /\ report.duration.t # "absent")
  THEN Returns(ErrorMetadata(<<"Could not determine video duration.">>))
  ELSE IF report.duration.t = "null" THEN Raises("TypeError")
  ELSE ProbeDuration(report, ParseFloat(report.duration.v))

get_video_metadata(exists, t, r) ==
  IF ~exists
  THEN Returns(ErrorMetadata(<<"File not found: ", video_file_path>>))
  ELSE IF ~t.ffprobe
  THEN [raised |-> "",
        value |-> ErrorMetadata(<<"ffprobe command not found. Ensure FFmpeg is installed and in PATH.">>),
        install |-> TRUE]
  ELSE IF r.kind = "exit_nonzero"
  THEN Returns(ErrorMetadata(
         IF Contains(r.stderr, "No such file or directory")
         THEN <<"ffprobe error: Video file not found at ", video_file_path,
                " or ffprobe itself is missing.">>
         ELSE IF Contains(r.stderr, "Invalid data found when processing input")
         THEN <<"ffprobe error: Invalid data for ", video_file_path,
                ". File might be corrupted/not media.">>
         ELSE <<"ffprobe command failed: ">> \o r.stderr))
  ELSE IF r.kind = "bad_json"
  THEN Returns(ErrorMetadata(<<"Failed to parse ffprobe JSON output.">>))
  ELSE ProbeReport(r.report)

(***************************************************************************)
(* calculate_segment_duration                                              *)
(***************************************************************************)
RECURSIVE sum(_)
sum(xs) == IF xs = << >> THEN 0 ELSE xs[1] + sum(Tail(xs))

Failure(msg) == [raised |-> "", value |-> [error |-> msg]]

NoResult == [error |-> <<"<no value>">>]

MetadataFailedMsg(underlying) == <<"Failed to get video metadata: ">> \o underlying

DurationMsg ==
  <<"Video duration is zero or invalid. Cannot calculate segment duration.">>

NoBitrateMsg ==
  <<"No bitrate data found for the video. Cannot estimate segment size.">>

TotalBitrateMsg ==
  <<"Total bitrate of the video is zero or negative. Cannot calculate segment duration. The file might not be a video or audio file, or lacks bitrate information.">>

CalculatedDurationMsg ==
  <<"Calculated segment duration is zero or negative. Check bitrate and target size.">>

\* MetadataGuards with the duration checked before the metadata error.
MetadataGuards_DurationFirst(md) ==
  IF FLeq0(md.total_duration_sec) THEN DurationMsg
  ELSE IF md.error # None THEN MetadataFailedMsg(md.error)
  ELSE IF md.stream_bitrates_bps = << >> THEN NoBitrateMsg
  ELSE IF sum(md.stream_bitrates_bps) <= 0 THEN TotalBitrateMsg
  ELSE None

\* MetadataGuards with the total bitrate compared to 0 by == instead of <=.
MetadataGuards_NegativeSumPasses(md) ==
  IF md.error # None THEN MetadataFailedMsg(md.error)
  ELSE IF FLeq0(md.total_duration_sec) THEN DurationMsg
  ELSE IF md.stream_bitrates_bps = << >> THEN NoBitrateMsg
  ELSE IF sum(md.stream_bitrates_bps) = 0 THEN TotalBitrateMsg
  ELSE None

\* The guards on the metadata, in the order of the code: the message of the
\* first one that fails, or None.
MetadataGuards(md) ==
  IF md.error # None THEN MetadataFailedMsg(md.error)
  ELSE IF FLeq0(md.total_duration_sec) THEN DurationMsg
  ELSE IF md.stream_bitrates_bps = << >> THEN NoBitrateMsg
  ELSE IF sum(md.stream_bitrates_bps) <= 0 THEN TotalBitrateMsg
  ELSE None

\* The return of a successful estimate, or what math.ceil raises.
SegmentReturn(md, total_bitrate_mbps, safe_segment_duration_sec, quotient) ==
  IF quotient.k = "nan" THEN [raised |-> "ValueError", value |-> NoResult]
  ELSE IF quotient.k = "inf" THEN [raised |-> "OverflowError", value |-> NoResult]
  ELSE [raised |-> "",
        value |-> [max_bitrate_mbps |-> total_bitrate_mbps,
                   safe_segment_duration_sec |-> safe_segment_duration_sec,
                   total_video_duration_sec |-> md.total_duration_sec,
                   estimated_total_segments |-> FCeil(quotient),
                   error |-> None]]

\* The guard on the segment duration and the segment count.
SegmentCount(md, total_bitrate_mbps, safe_segment_duration_sec) ==
  IF safe_segment_duration_sec.k = "zde"
  THEN [raised |-> "ZeroDivisionError", value |-> NoResult]
  ELSE IF FLeq0(safe_segment_duration_sec) THEN Failure(CalculatedDurationMsg)
  ELSE SegmentReturn(md, total_bitrate_mbps, safe_segment_duration_sec,
                     FDiv(md.total_duration_sec, safe_segment_duration_sec))

\* SegmentDuration without the conversion of megabytes to megabits.
SegmentDuration_NoByteToBit(md, target_segment_size_mb, total_bitrate_mbps) ==
  SegmentCount(md, total_bitrate_mbps,
               FDiv(IntToFloat(target_segment_size_mb), total_bitrate_mbps))

\* SegmentDuration with the operands of the division swapped.
SegmentDuration_Inverted(md, target_segment_size_mb, total_bitrate_mbps) ==
  SegmentCount(md, total_bitrate_mbps,
               FDiv(total_bitrate_mbps, IntToFloat(target_segment_size_mb * 8)))

\* The target in megabits and the segment duration.
SegmentDuration(md, target_segment_size_mb, total_bitrate_mbps) ==
  SegmentCount(md, total_bitrate_mbps,
               FDiv(IntToFloat(target_segment_size_mb * 8), total_bitrate_mbps))

\* The arithmetic, for metadata that passed the guards.
SegmentCompute(md, target_segment_size_mb) ==
  SegmentDuration(md, target_segment_size_mb,
                  FDiv(IntToFloat(sum(md.stream_bitrates_bps)), IntToFloat(1000000)))

\* SegmentEstimate with the bitrate list shared between calls: the entries of
\* the previous call are still in it.
SegmentEstimate_SharedList(md, target_segment_size_mb) ==
  LET carried == IF history = << >> THEN << >>
                 ELSE history[Len(history)].metadata.stream_bitrates_bps
      seen == [md EXCEPT !.stream_bitrates_bps = carried \o @]
  IN IF MetadataGuards(seen) # None THEN Failure(MetadataGuards(seen))
     ELSE SegmentCompute(seen, target_segment_size_mb)

\* The body after the call of get_video_metadata.
SegmentEstimate(md, target_segment_size_mb) ==
  IF MetadataGuards(md) # None THEN Failure(MetadataGuards(md))
  ELSE SegmentCompute(md, target_segment_size_mb)

(***************************************************************************)
(* The calls                                                               *)
(***************************************************************************)
InitInputs ==
  \/ /\ fileExists = FALSE
     /\ tools \in ToolStates
     /\ run = DefaultRun
  \/ /\ fileExists = TRUE
     /\ tools \in {t \in ToolStates : ~t.ffprobe}
     /\ run = DefaultRun
  \/ /\ fileExists = TRUE
     /\ tools = [ffmpeg |-> TRUE, ffprobe |-> TRUE]
     /\ run \in Runs

Idle ==
  /\ pc = "idle"
  /\ target = 22
  /\ metadata = NoMetadata
  /\ result = NoResult
  /\ exc = ""
  /\ history = << >>

Init == InitInputs /\ Idle

\* install_ffmpeg runs on the missing-binary path only, with whatever the
\* installation does.
Installs(probed) ==
  IF probed.install THEN {install_ffmpeg(tools, apt) : apt \in AptOutcomes}
  ELSE {[ret |-> TRUE, tools |-> tools, raised |-> ""]}

\* The ways get_video_metadata can end: the tools it leaves and what it
\* returns or raises, once install_ffmpeg has run in it.
Outcomes(probed) ==
  { [tools |-> ins.tools,
     out |-> IF ins.raised # "" THEN Raises(ins.raised) ELSE probed] : ins \in Installs(probed) }

\* A caller calls get_video_metadata(video_file_path).
CallGetVideoMetadata ==
  /\ pc = "idle"
  /\ \E c \in Outcomes(get_video_metadata(fileExists, tools, run)) :
       /\ tools' = c.tools
       /\ metadata' = c.out.value
       /\ exc' = c.out.raised
       /\ pc' = IF c.out.raised = "" THEN "metadata_returned" ELSE "metadata_raised"
  /\ UNCHANGED <<fileExists, run, target, result, history>>

\* The end of a call of calculate_segment_duration whose metadata is md.
Estimated(md, t, est) ==
  /\ exc' = est.raised
  /\ pc' = IF est.raised = "" THEN "returned" ELSE "raised"
  /\ result' = est.value
  /\ history' = Append(history, [metadata |-> md, target |-> t, outcome |-> est])

\* A caller calls calculate_segment_duration(video_file_path, t).
CallCalculateSegmentDuration ==
  /\ pc = "idle"
  /\ \E c \in Outcomes(get_video_metadata(fileExists, tools, run)), t \in Targets :
       /\ tools' = c.tools
       /\ metadata' = c.out.value
       /\ target' = t
       /\ IF c.out.raised # ""
          THEN /\ exc' = c.out.raised
               /\ pc' = "raised"
               /\ result' = NoResult
               /\ history' = history
          ELSE Estimated(c.out.value, t, SegmentEstimate(c.out.value, t))
  /\ UNCHANGED <<fileExists, run>>

Next == CallGetVideoMetadata \/ CallCalculateSegmentDuration

Spec == Init /\ [][Next]_vars

(***************************************************************************)
(* Repeated calls: the estimator is called again, on a file that may have  *)
(* changed, with the tools as the earlier calls left them.                 *)
(***************************************************************************)
ReportA ==
  [has_format |-> TRUE, duration |-> C(<<"1", "0", "0">>), bit_rate |-> Absent,
   has_streams |-> TRUE,
   streams |-> << [bit_rate |-> C(<<"2", "0", "0", "0", "0", "0", "0">>)],
                  [bit_rate |-> C(<<"1", "2", "8", "0", "0", "0">>)] >>]

ReportB ==
  [has_format |-> TRUE, duration |-> C(<<"3", "6", "0", "0">>),
   bit_rate |-> C(<<"5", "0", "0", "0", "0", "0", "0">>),
   has_streams |-> FALSE, streams |-> << >>]

RepeatRuns ==
  { [kind |-> "report", stderr |-> << >>, report |-> r] : r \in {ReportA, ReportB} }

InitRepeat ==
  /\ fileExists = TRUE
  /\ tools \in {t \in ToolStates : t.ffmpeg = t.ffprobe}
  /\ run \in RepeatRuns
  /\ Idle

\* The caller is back from a call and sets up the next one.
CallAgain ==
  /\ pc # "idle"
  /\ Len(history) < MaxCalls
  /\ pc' = "idle"
  /\ run' \in RepeatRuns
  /\ target' = 22
  /\ metadata' = NoMetadata
  /\ result' = NoResult
  /\ exc' = ""
  /\ UNCHANGED <<fileExists, tools, history>>

NextRepeat == CallGetVideoMetadata \/ CallCalculateSegmentDuration \/ CallAgain

SpecRepeat == InitRepeat /\ [][NextRepeat]_vars

(***************************************************************************)
(* Exact arithmetic, to state the properties                               *)
(***************************************************************************)
RECURSIVE GCD(_, _)
GCD(a, b) == IF b = 0 THEN a ELSE GCD(b, a % b)

\* The value of a double whose mantissa has no bit in the low limb, as the
\* fraction n / d in lowest terms.
RECURSIVE Dyadic(_, _)
Dyadic(n, e) ==
  IF e >= 0 THEN [n |-> n * Pow2(e), d |-> 1]
  ELSE IF n % 2 = 0 THEN Dyadic(n \div 2, e + 1)
  ELSE [n |-> n, d |-> Pow2(0 - e)]

ExactValue(x) == Dyadic(x.hi, x.e + 26)

\* ceiling(D * S / (T * 8,000,000)) for D = dn / dd, in integers.
ExactSegments(dn, dd, S, T) ==
  LET den0 == dd * T * 8000000
      g1 == GCD(dn, den0)
      g2 == GCD(S, den0 \div g1)
      num == (dn \div g1) * (S \div g2)
      den == (den0 \div g1) \div g2
  IN (num + den - 1) \div den

\* The exact ceiling for the metadata and target of the state; a duration
\* below 2^-40 s gives a ratio below 1, whose ceiling is 1.
ExactCount ==
  IF metadata.total_duration_sec.e + MantBits < -40 THEN 1
  ELSE ExactSegments(ExactValue(metadata.total_duration_sec).n,
                     ExactValue(metadata.total_duration_sec).d,
                     sum(metadata.stream_bitrates_bps), target)

\* 2 * x for a double x.
Twice(x) == [x EXCEPT !.e = @ + 1]

Duration == metadata.total_duration_sec
Bitrates == metadata.stream_bitrates_bps

\* calculate_segment_duration was called with metadata that passes its four
\* guards.
GuardsHold ==
  /\ pc \in {"returned", "raised"}
  /\ metadata.error = None
  /\ FGt0(Duration)
  /\ Bitrates # << >>
  /\ sum(Bitrates) > 0

\* ... and it returned.
GuardsPassed == GuardsHold /\ pc = "returned"

ProbedReport == fileExists /\ run.kind = "report"

DurationParses ==
  /\ run.report.has_format
  /\ run.report.duration.t = "str"
  /\ ParseFloat(run.report.duration.v).ok

ReportStreams == IF run.report.has_streams THEN run.report.streams ELSE << >>

\* What a stream is to contribute: its bit rate when that is an integer, 0
\* when it is missing, "N/A" or anything else.
ExpectedEntry(b) ==
  IF b.t = "str" /\ b.v # NA /\ ParseInt(b.v).ok THEN ParseInt(b.v).v ELSE 0

Placeholders == Duration = FZero /\ Bitrates = << >>

(***************************************************************************)
(* Properties                                                              *)
(***************************************************************************)
\* C1: no exception escapes get_video_metadata or calculate_segment_duration:
\* every call returns, and when the probe failed (no file, no binary, non-zero
\* exit, output that is not JSON, no duration) the returned value carries an
\* error message.
C1_NoExceptionEscapes ==
  /\ pc \notin {"raised", "metadata_raised"}
  /\ pc \in {"returned", "metadata_returned"}
       /\ (~fileExists \/ run.kind # "report" \/ ~DurationParses)
     => metadata.error # None
  /\ pc = "returned" /\ metadata.error # None => result.error # None

\* C2: calculate_segment_duration reports the first failing check in the
\* order metadata error, duration <= 0, empty bitrate list, bitrate sum <= 0.
C2_FirstFailingGuard ==
  pc = "returned" =>
    /\ metadata.error # None
       => result = [error |-> <<"Failed to get video metadata: ">> \o metadata.error]
    /\ metadata.error = None /\ FLeq0(Duration)
       => result = [error |-> DurationMsg]
    /\ metadata.error = None /\ ~FLeq0(Duration) /\ Bitrates = << >>
       => result = [error |-> NoBitrateMsg]
    /\ metadata.error = None /\ ~FLeq0(Duration) /\ Bitrates # << >> /\ sum(Bitrates) <= 0
       => result = [error |-> TotalBitrateMsg]

\* A duration <= 0 is reported although the bitrates sum to a positive value.
C2_Witness ==
  /\ pc = "returned"
  /\ metadata.error = None
  /\ FLeq0(Duration)
  /\ sum(Bitrates) > 0
  /\ result = [error |-> DurationMsg]

C4_MonotoneInTarget ==
  GuardsPassed /\ target > 0 =>
    \A t2 \in {t \in Targets : t > 0} :
      LET other == SegmentEstimate(metadata, t2).value
      IN /\ result.error = None
         /\ other.error = None
         /\ target <= t2
            => other.estimated_total_segments <= result.estimated_total_segments
         /\ t2 = 2 * target
            => other.safe_segment_duration_sec = Twice(result.safe_segment_duration_sec)

\* The estimate for 22 MB has more segments than the one for 44 MB, and the
\* segment duration for 44 MB is twice the one for 22 MB.
C4_Witness ==
  /\ GuardsPassed
  /\ target = 22
  /\ result.estimated_total_segments
       > SegmentEstimate(metadata, 44).value.estimated_total_segments
  /\ SegmentEstimate(metadata, 44).value.safe_segment_duration_sec
       = Twice(result.safe_segment_duration_sec)

\* C5 as stated: a value returned by get_video_metadata has error set if and
\* only if its duration is 0 and its bitrate list is empty.
C5_ErrorIffPlaceholders ==
  pc \in {"metadata_returned", "returned"} => (metadata.error # None <=> Placeholders)

\* C5 amended: a value returned by get_video_metadata with error set has
\* duration 0 and an empty bitrate list (the converse does not hold).
C5_ErrorImpliesPlaceholders ==
  pc \in {"metadata_returned", "returned"} => (metadata.error # None => Placeholders)

\* A report with streams but no duration was turned into an error value.
C5_Witness ==
  /\ pc = "metadata_returned"
  /\ ProbedReport
  /\ ReportStreams # << >>
  /\ metadata.error # None
  /\ Placeholders

C7_OneEntryPerStream ==
  pc \in {"metadata_returned", "metadata_raised"} /\ ProbedReport /\ DurationParses =>
    /\ pc = "metadata_returned"
    /\ metadata.error = None
    /\ ReportStreams # << >> =>
         /\ Len(Bitrates) = Len(ReportStreams)
         /\ \A i \in 1..Len(ReportStreams) :
              Bitrates[i] = ExpectedEntry(ReportStreams[i].bit_rate)

NoStreamEntries == ReportStreams = << >>

\* C8 as stated: the fallback puts the container bit rate as the only entry
\* whenever no stream entry was collected, the container bit rate is present
\* and the duration is positive, and is not used otherwise.
C8_FallbackWhenPresent ==
  pc = "metadata_returned" /\ ProbedReport /\ metadata.error = None =>
    LET b == run.report.bit_rate
    IN /\ NoStreamEntries /\ b.t = "str" /\ FGt0(Duration)
          => Len(Bitrates) = 1 /\ ParseInt(b.v).ok /\ Bitrates[1] = ParseInt(b.v).v
       /\ NoStreamEntries /\ ~(b.t = "str" /\ FGt0(Duration)) => Bitrates = << >>
       /\ ~NoStreamEntries => Len(Bitrates) = Len(ReportStreams)

\* C8 amended: the fallback puts the container bit rate as the only entry
\* whenever no stream entry was collected, the container bit rate is a
\* non-empty string that parses as an integer and the duration is positive;
\* in every other case the list is the per-stream list (empty when there is
\* no stream, also when the container bit rate is empty or unparseable).
C8_FallbackWhenParseable ==
  pc = "metadata_returned" /\ ProbedReport /\ metadata.error = None =>
    LET b == run.report.bit_rate
        usable == b.t = "str" /\ b.v # << >> /\ ParseInt(b.v).ok
    IN /\ NoStreamEntries /\ usable /\ FGt0(Duration) => Bitrates = <<ParseInt(b.v).v>>
       /\ NoStreamEntries /\ ~(usable /\ FGt0(Duration)) => Bitrates = << >>
       /\ ~NoStreamEntries =>
            Bitrates = [i \in 1..Len(ReportStreams) |-> ExpectedEntry(ReportStreams[i].bit_rate)]

\* The container bit rate became the only entry of the list.
C8_Witness ==
  /\ pc = "metadata_returned"
  /\ ProbedReport
  /\ NoStreamEntries
  /\ FGt0(Duration)
  /\ Bitrates = <<5000000>>

\* C9 as stated: calculate_segment_duration never returns the error of the
\* check safe_segment_duration_sec <= 0.
C9_GuardUnreachable ==
  pc = "returned" => result.error # CalculatedDurationMsg

\* C9 amended: with a target > 0, calculate_segment_duration never returns
\* the error of the check safe_segment_duration_sec <= 0, and once the guards
\* have passed the computed safe_segment_duration_sec is > 0.
C9_GuardUnreachableForPositiveTarget ==
  pc = "returned" /\ target > 0 =>
    /\ result.error # CalculatedDurationMsg
    /\ GuardsPassed => result.error = None /\ FGt0(result.safe_segment_duration_sec)

\* The guards passed with the smallest positive target and the segment
\* duration is positive.
C9_Witness ==
  /\ GuardsPassed
  /\ target = 1
  /\ result.error = None
  /\ FGt0(result.safe_segment_duration_sec)

\* C10: a value returned by calculate_segment_duration is a failure with a
\* non-empty message and no numeric field, or a success with error = none,
\* positive bitrate, segment duration and duration and at least 1 segment.
C10_TwoShapes ==
  pc = "returned" =>
    \/ /\ DOMAIN result = {"error"}
       /\ result.error # None
       /\ result.error[1] # ""
    \/ /\ DOMAIN result = {"max_bitrate_mbps", "safe_segment_duration_sec",
                           "total_video_duration_sec", "estimated_total_segments", "error"}
       /\ result.error = None
       /\ FGt0(result.max_bitrate_mbps)
       /\ FGt0(result.safe_segment_duration_sec)
       /\ FGt0(result.total_video_duration_sec)
       /\ result.estimated_total_segments \in Int
       /\ result.estimated_total_segments >= 1

====
